---- MODULE Spec2Model ----
(***************************************************************************)
(* Model of the plaud-exporter browser extension.                          *)
(*                                                                         *)
(*   background.js                      the coordinator (service worker):  *)
(*                                      activeExports, activeTabIds,       *)
(*                                      stopFlags and its message handler  *)
(*   content.js                         the content script of a tab: its   *)
(*                                      two flags and its message handler  *)
(*   features/audioExport/audioExport.js  runExportAll, the export loop    *)
(*                                                                         *)
(* The coordinator tracks every tab id of Tabs.  One of them, Page, is the *)
(* tab of the Plaud page, in which the content script is loaded; the other  *)
(* tab holds no content script, so a message sent to it is lost.  The page *)
(* is a list of .fileInfo containers; container e carries the title        *)
(* worklist[e] and dom is the set of containers still attached.  Messages  *)
(* travel asynchronously: toContent holds what was sent to the content     *)
(* script with chrome.tabs.sendMessage, toBackground what the content      *)
(* script sent with chrome.runtime.sendMessage.                            *)
(***************************************************************************)
EXTENDS Naturals, Sequences, FiniteSets

\* ------------------------------------------------------------------ bounds
MaxItems == 4
MaxSharedItems == 2
MaxRuns == 2
MaxChains == 2
MaxLongItems == 11
MaxPolls == 4
MaxRetriesArg == 4
MaxForeign == 2
MaxClicks == 2

\* ------------------------------------------------------------ the universe
Tabs == {"t1", "t2"}
Page == "t1"
Runs == 1..MaxRuns
AllTitles ==
    <<"A", "B", "C", "D", "E", "F", "G", "H", "I", "J", "K", "L", "M">>

\* The pages a single run is started on: lists of distinct titles of every
\* length up to MaxItems, a list with a repeated title and one with empty
\* titles.
Worklists ==
    {SubSeq(AllTitles, 1, n) : n \in 0..MaxItems}
        \cup {<<"A", "A", "B">>, <<"", "A", "">>}

\* The pages on which several runs are started.
SharedWorklists ==
    {SubSeq(AllTitles, 1, n) : n \in 1..MaxSharedItems}

\* A page long enough for the coordinator's periodic progress notification.
LongWorklists == {SubSeq(AllTitles, 1, MaxLongItems)}

\* The awaited steps of one item, in the order of the source (audioExport.js
\* 203-347).  A run is at pc = "loop" between two items.
Steps ==
    <<"select", "share", "option", "format", "trigger", "download",
      "rightclick", "deletelookup", "deleteclick", "removal">>
ItemPcs == {Steps[i] : i \in DOMAIN Steps}
StepIndex(s) == CHOOSE i \in DOMAIN Steps : Steps[i] = s

\* mutant: the download wait is skipped
NextStep_SkipsDownloadWait(s) ==
    IF s = "trigger" THEN "rightclick" ELSE Steps[StepIndex(s) + 1]

NextStep(s) == Steps[StepIndex(s) + 1]

NoElement == 0
NoExport == [status |-> "none", filesProcessed |-> 0, filesErrored |-> 0]
NoNotification == [title |-> "none", tabId |-> Page]
NoResponse == [success |-> FALSE, message |-> "none"]
NoSuggestion == [tabId |-> Page, filename |-> "none", suggested |-> "none"]

\* Functions console.error can be bound to: the browser's own, or the
\* wrapper made by setupDownloadErrorListener in run r; NoFunction is null.
NoFunction == [kind |-> "null", of |-> 0]
NativeConsoleError == [kind |-> "native", of |-> 0]
Wrapper(r) == [kind |-> "wrapper", of |-> r]
NoListener == 0
NoFaultLimit == MaxItems * MaxRuns

VARIABLES
    worklist,        \* the titles of the page's containers, in document order
    dom,             \* the containers attached to the page
    activeExports,   \* background.js: tab -> export data (NoExport: no entry)
    activeTabIds,    \* background.js: tabs engaged in an export
    stopFlags,       \* background.js: tabs whose export was asked to stop
    cleanupTimers,   \* background.js: pending 60 s cleanup timers per tab
    keepAlive,       \* background.js: pending keepTabAlive chains per tab
    notification,    \* background.js: the latest notification created
    notified,        \* history: filesProcessed of each progress notification
    openTabs,        \* the tabs that are open in the browser
    isBackgroundExporting,  \* content.js flag
    shouldStopExport,       \* content.js flag
    downloadErrorOccurred,  \* audioExport.js: _downloadErrorOccurred
    downloadErrorListener,  \* audioExport.js: _downloadErrorListener
    originalConsoleError,   \* audioExport.js: _originalConsoleError
    consoleError,    \* the page: the function console.error is bound to
    errorListeners,  \* the page: registered document "error" listeners
    run,             \* the invocations of runExportAll
    toContent,       \* messages in flight to the content script
    toBackground,    \* messages in flight from the content script
    reply,           \* the coordinator's latest sendResponse to the popup
    budget,          \* number of runs the user starts in this session
    userTabs,        \* the tabs on which the user operates the popup
    faultBudget,     \* number of items that fail in this session at most
    optionAt,        \* where the page shows its "Export Audio" option
                     \* once the share icon is clicked
    hidden,          \* document.visibilityState is "hidden"
    suggestion,      \* the coordinator's answer to the browser's latest
                     \* onDeterminingFilename event
    selectorActive,  \* the element selector of the page is on
    contentResponse, \* the content script's latest sendResponse
    scrollIntervals, \* per run, the keep-visible intervals that are live
    pollIntervals,   \* the runs whose download-wait interval is live
    foreignSeen,     \* history: messages of other senders delivered to
                     \* the content script
    picked,          \* history: titles a run picked, in order
    sent,            \* history: progress events a run emitted, in order
    outcomes,        \* history: "ok" or "err" for each item a run finished
    failedAt,        \* history: step at which a run's latest item failed
    underStop,       \* history: whether the stop flag of the page's tab
                     \* was set when a background run's latest item ended
    stopAsked,       \* history: the runs in progress for which a stop
                     \* request was accepted by the coordinator
    errorInWindow,   \* history: the runs in whose current download wait
                     \* the error flag was set
    removedBy,       \* history: who detached the container of the item a
                     \* run has just completed ("none" once it goes on)
    wait,            \* domUtils: a call of waitForCondition or of
                     \* findElementByXPath
    rclick,          \* domUtils: a call of rightClickWithRetry
    menuWait,        \* audioExportUtils: a call of waitForDeleteMenuItem
    clicks,          \* domUtils: the calls of clickElement on one element
    style            \* the inline outline and z-index of that element

vars ==
    <<worklist, dom, activeExports, activeTabIds, stopFlags, cleanupTimers,
      keepAlive, notification, notified, openTabs, faultBudget, optionAt,
      hidden, suggestion, selectorActive, contentResponse, scrollIntervals,
      pollIntervals, foreignSeen,
      downloadErrorListener, originalConsoleError, consoleError,
      errorListeners, isBackgroundExporting, shouldStopExport, downloadErrorOccurred, run,
      toContent, toBackground, reply, budget, userTabs, picked, sent,
      outcomes, failedAt, underStop, stopAsked, errorInWindow, removedBy,
      wait, rclick, menuWait, clicks, style>>

coordVars ==
    <<activeExports, activeTabIds, stopFlags, cleanupTimers, keepAlive,
      notification, notified, openTabs>>
observerVars ==
    <<downloadErrorListener, originalConsoleError, consoleError,
      errorListeners>>
timerVars == <<scrollIntervals, pollIntervals>>
pageVars ==
    <<worklist, dom, downloadErrorOccurred, observerVars, timerVars>>
contentVars ==
    <<isBackgroundExporting, shouldStopExport, contentResponse,
      selectorActive>>
historyVars ==
    <<picked, sent, outcomes, failedAt, underStop, stopAsked, errorInWindow,
      removedBy>>
browserVars == <<hidden, suggestion, foreignSeen>>
sessionVars == <<budget, userTabs, faultBudget, optionAt, browserVars>>
clickVars == <<clicks, style>>
utilVars == <<wait, rclick, menuWait, clickVars>>

\* ------------------------------------------------------------- runExportAll
\* mutant: the ceiling of consecutive errors is one too high
maxErrors_Four == 2 + 2

maxErrors == 3

IdleRun ==
    [backgroundMode |-> FALSE, state |-> "Idle", pc |-> "loop",
     fileElement |-> NoElement, fileTitle |-> "", processedTitles |-> {},
     filesProcessed |-> 0, filesErrored |-> 0, errorCount |-> 0,
     fileCount |-> 0, initialFileCount |-> 0, settled |-> "pending"]

\* const stats = {...}; const processedTitles = new Set(); errorCount = 0
NewRun(bg) == [IdleRun EXCEPT !.backgroundMode = bg, !.state = "Running"]

Running(r) == run[r].state = "Running"
Ended(r) == run[r].state \in {"Stopped", "Completed", "FatalError"}
InItem(r) == Running(r) /\ run[r].pc \in ItemPcs
AtLoop(r) == Running(r) /\ run[r].pc = "loop"
FreeRuns == {r \in Runs : run[r].state = "Idle"}

\* mutant: the stop flag is never seen
StopObserved_Never(r) == FALSE

\* mutant: the stop flag is consulted in foreground mode too
StopObserved_AnyMode(r) == Page \in stopFlags

\* shouldStopExport(): false in foreground mode; in background mode the
\* fetch of stop-flag.txt (a file the extension does not ship) fails and the
\* coordinator's answer to checkShouldStop, stopFlags.has(tabId), decides.
StopObserved(r) == run[r].backgroundMode /\ Page \in stopFlags

\* mutant: the scan takes containers without a title as well
UnprocessedFiles_Untitled(r) ==
    {e \in dom : worklist[e] \notin run[r].processedTitles}

\* The scan of one outer-loop iteration: containers with a non-empty title
\* that is not in processedTitles, in document order.
UnprocessedFiles(r) ==
    {e \in dom : worklist[e] # "" /\ worklist[e] \notin run[r].processedTitles}
FirstOf(S) == CHOOSE e \in S : \A f \in S : e <= f

\* mutant: a failed item is counted as processed as well
UpdateProgress_Both(rec, error) ==
    IF error
    THEN [rec EXCEPT !.filesErrored = @ + 1, !.filesProcessed = @ + 1]
    ELSE [rec EXCEPT !.filesProcessed = @ + 1]

\* updateProgress(current, error): the counters after the call
UpdateProgress(rec, error) ==
    IF error
    THEN [rec EXCEPT !.filesErrored = @ + 1]
    ELSE [rec EXCEPT !.filesProcessed = @ + 1]

\* the exportProgressUpdate message updateProgress sends
ProgressMessage(rec) ==
    [action |-> "exportProgressUpdate", filesProcessed |-> rec.filesProcessed,
     filesErrored |-> rec.filesErrored, currentTitle |-> rec.fileTitle,
     error |-> FALSE]

\* mutant: the progress message is sent in every mode
ProgressSent_Always(rec) == <<ProgressMessage(rec)>>

\* updateProgress sends only in background mode
ProgressSent(rec) ==
    IF rec.backgroundMode THEN <<ProgressMessage(rec)>> ELSE << >>

\* The finally block of runExportAll ends in "return stats": the promise
\* resolves with stats also when the try block threw.
SettleOf(threw) == "resolved"

\* content.js 109-139: what the handler's then/catch callbacks send when
\* the run's promise settles; they read isBackgroundExporting at that time.
CompletionSent(rec, settled) ==
    IF ~isBackgroundExporting THEN << >>
    ELSE IF settled = "resolved"
    THEN <<[action |-> "exportComplete",
            filesProcessed |-> rec.filesProcessed,
            filesErrored |-> rec.filesErrored, currentTitle |-> "",
            error |-> FALSE]>>
    ELSE <<[action |-> "exportComplete", filesProcessed |-> 0,
            filesErrored |-> 1, currentTitle |-> "", error |-> TRUE]>>

\* 398-418: the run r installs its document listener and its wrapper of
\* console.error, remembering both in the variables of the module.
SetupDownloadErrorListener(r) ==
    /\ downloadErrorOccurred' = FALSE
    /\ downloadErrorListener' = r
    /\ errorListeners' = errorListeners \cup {r}
    /\ originalConsoleError' = consoleError
    /\ consoleError' = Wrapper(r)

\* 420-427: the listener and the function the variables of the module
\* hold now are removed and restored.
RemoveDownloadErrorListener ==
    /\ errorListeners' = errorListeners \ {downloadErrorListener}
    /\ consoleError' =
          IF originalConsoleError # NoFunction THEN originalConsoleError
          ELSE consoleError
    /\ UNCHANGED <<downloadErrorListener, originalConsoleError>>

\* A run ends in state st; threw says whether the try block ended by throw.
EndRun(r, st, threw) ==
    LET settled == SettleOf(threw)
        rec == [run[r] EXCEPT !.state = st, !.pc = "ended",
                              !.settled = settled]
    IN  /\ run' = [run EXCEPT ![r] = rec]
        /\ toBackground' = toBackground \o CompletionSent(rec, settled)
        /\ RemoveDownloadErrorListener
        /\ stopAsked' = stopAsked \ {r}

\* The wait of the scan (141-157) ends at once when it finds an
\* unprocessed container or no container at all; it times out when every
\* container of the page is processed or untitled.
ScanTimesOut(r) == UnprocessedFiles(r) = {} /\ dom # {}

\* mutant: a scan that times out is an error
AfterEmptyScan_TimeoutIsError(r) ==
    IF ScanTimesOut(r) THEN "FatalError" ELSE "Completed"

\* 158-178: the timeout of the scan is caught and taken as "no files"; the
\* run ends as if the page were empty.
AfterEmptyScan(r) == "Completed"

\* 192-199: in background mode, when the page is hidden, the item starts
\* an interval that scrolls its container into view every second; the id
\* that setInterval returns is not kept.
KeepsVisible(r) == run[r].backgroundMode /\ hidden

\* One pass through the head of the while loop (audioExport.js 119-189).
LoopIteration(r) ==
    /\ AtLoop(r)
    /\ IF StopObserved(r)
       THEN EndRun(r, "Stopped", FALSE)
            /\ UNCHANGED <<picked, scrollIntervals>>
       ELSE IF run[r].errorCount >= maxErrors
       THEN EndRun(r, "FatalError", TRUE)
            /\ UNCHANGED <<picked, scrollIntervals>>
       ELSE IF UnprocessedFiles(r) = {}
       THEN EndRun(r, AfterEmptyScan(r), FALSE)
            /\ UNCHANGED <<picked, scrollIntervals>>
       ELSE LET e == FirstOf(UnprocessedFiles(r))
            IN  /\ run' = [run EXCEPT
                              ![r].fileElement = e,
                              ![r].fileTitle = worklist[e],
                              ![r].fileCount = @ + 1,
                              ![r].pc = "select"]
                /\ picked' = [picked EXCEPT ![r] = Append(@, worklist[e])]
                /\ scrollIntervals' =
                      IF KeepsVisible(r)
                      THEN [scrollIntervals EXCEPT ![r] = @ + 1]
                      ELSE scrollIntervals
                /\ UNCHANGED <<toBackground, observerVars, stopAsked>>
    /\ failedAt' = [failedAt EXCEPT ![r] = "none"]
    /\ removedBy' = [removedBy EXCEPT ![r] = "none"]
    /\ UNCHANGED <<coordVars, worklist, dom, downloadErrorOccurred,
                   pollIntervals, contentVars, toContent, reply,
                   sessionVars, utilVars, sent, outcomes, underStop,
                   errorInWindow>>

\* Where the "Export Audio" option can be: an li of the popover that the
\* share icon opens, an element of the page outside that popover, nowhere.
OptionPlaces == {"popover", "page", "none"}

\* audioExportUtils.js 81-95: the elements of the given tag below the
\* parent are searched for the text; the call of 223-227 passes "li" and
\* the popover.
FindElementByText(parentElement) == optionAt = parentElement

\* 228-233: the fallback is popoverElement.querySelector(selector), a
\* search of the popover again, with a selector (110) built on :contains,
\* which querySelector rejects with a SyntaxError: it yields no element.
FallbackFinds == FALSE

\* 223-237: the option is found by the first search or by the fallback.
ExportAudioOptionFound == FindElementByText("popover") \/ FallbackFinds

\* The lookup of step "share" ends without the option.
OptionMissing(r) == run[r].pc = "share" /\ ~ExportAudioOptionFound

\* A step of the item finds its control and the next step begins.  The
\* export click (step "trigger") is preceded by clearing the download flag;
\* the download wait (step "download") ends well when the flag is not set;
\* the delete click (step "deleteclick") is preceded by counting the
\* containers of the page.
StepSucceeds(r) ==
    /\ InItem(r)
    /\ run[r].pc # "removal"
    /\ run[r].pc = "download" => ~downloadErrorOccurred
    /\ run[r].pc = "share" => ExportAudioOptionFound
    /\ run' = [run EXCEPT
                  ![r].pc = NextStep(run[r].pc),
                  ![r].initialFileCount =
                      IF run[r].pc = "deleteclick" THEN Cardinality(dom)
                      ELSE @]
    /\ downloadErrorOccurred' =
          IF run[r].pc = "trigger" THEN FALSE ELSE downloadErrorOccurred
    /\ errorInWindow' = errorInWindow \ {r}
    /\ pollIntervals' =
          IF run[r].pc = "trigger" THEN pollIntervals \cup {r}
          ELSE IF run[r].pc = "download" THEN pollIntervals \ {r}
          ELSE pollIntervals
    /\ UNCHANGED <<worklist, dom, observerVars, scrollIntervals, coordVars,
                   contentVars,
                   toContent, toBackground, reply, sessionVars, utilVars,
                   picked, sent, outcomes, failedAt, underStop, stopAsked,
                   removedBy>>

\* mutant: a failed item is not marked as processed
AfterItemError_NoMark(rec) ==
    [UpdateProgress([rec EXCEPT !.errorCount = @ + 1], TRUE) EXCEPT
        !.pc = "loop"]

\* mutant: the error of an item unwinds past the outer loop
AfterItemError_Unwinds(rec) ==
    [UpdateProgress([rec EXCEPT !.errorCount = @ + 1], TRUE) EXCEPT
        !.processedTitles = @ \cup {rec.fileTitle},
        !.pc = "ended", !.state = "FatalError"]

\* The state of the run after the catch block of the item (356-385).
AfterItemError(rec) ==
    [UpdateProgress([rec EXCEPT !.errorCount = @ + 1], TRUE) EXCEPT
        !.processedTitles = @ \cup {rec.fileTitle},
        !.pc = "loop"]

\* The items that failed in this session, and whether one more may fail.
RECURSIVE ErroredUpTo(_)
ErroredUpTo(n) ==
    IF n = 0 THEN 0 ELSE run[n].filesErrored + ErroredUpTo(n - 1)
Failures == ErroredUpTo(MaxRuns)
MayFail == Failures < faultBudget

\* A step of the item throws: a wait timed out, a control was not found, a
\* click threw, or the download wait ended with the error flag set.
StepFails(r) ==
    /\ InItem(r)
    /\ run[r].pc # "removal"
    /\ run[r].pc = "download" => downloadErrorOccurred
    /\ LET rec == AfterItemError(run[r])
       IN  /\ run' = [run EXCEPT ![r] = rec]
           /\ toBackground' = toBackground \o ProgressSent(rec)
           /\ sent' = [sent EXCEPT ![r] = @ \o ProgressSent(rec)]
    /\ \/ MayFail /\ failedAt' = [failedAt EXCEPT ![r] = run[r].pc]
       \/ OptionMissing(r) /\ failedAt' = [failedAt EXCEPT ![r] = "nooption"]
    /\ outcomes' = [outcomes EXCEPT ![r] = Append(@, "err")]
    /\ underStop' = [underStop EXCEPT ![r] = StopObserved(r)]
    /\ errorInWindow' = errorInWindow \ {r}
    /\ pollIntervals' = pollIntervals \ {r}
    /\ UNCHANGED <<coordVars, worklist, dom, downloadErrorOccurred,
                   observerVars, scrollIntervals, contentVars, toContent,
                   reply, sessionVars, utilVars, picked, stopAsked,
                   removedBy>>

\* mutant: a removal that had to be forced counts as an error of the item
AfterItemSuccess_ForcedIsError(rec, by) ==
    IF by = "controller"
    THEN [AfterItemError(rec) EXCEPT !.initialFileCount = 0]
    ELSE [UpdateProgress(
             [rec EXCEPT !.processedTitles = @ \cup {rec.fileTitle}], FALSE)
          EXCEPT !.errorCount = 0, !.initialFileCount = 0, !.pc = "loop"]

\* mutant: a successful item leaves the consecutive-error counter alone
AfterItemSuccess_KeepsErrors(rec, by) ==
    [UpdateProgress(
        [rec EXCEPT !.processedTitles = @ \cup {rec.fileTitle}], FALSE)
     EXCEPT !.initialFileCount = 0, !.pc = "loop"]

\* The state of the run after the success path of the item (349-355),
\* whoever detached the container (by).
AfterItemSuccess(rec, by) ==
    [UpdateProgress(
        [rec EXCEPT !.processedTitles = @ \cup {rec.fileTitle}], FALSE)
     EXCEPT !.errorCount = 0, !.initialFileCount = 0, !.pc = "loop"]

\* The run marks its item processed and reports it (349-355).
ItemMarked(r, by) ==
    LET rec == AfterItemSuccess(run[r], by)
    IN  /\ run' = [run EXCEPT ![r] = rec]
        /\ toBackground' = toBackground \o ProgressSent(rec)
        /\ sent' = [sent EXCEPT ![r] = @ \o ProgressSent(rec)]

\* The predicate of the removal wait (320-326): the container is detached
\* or the page has fewer containers than before the delete click.
RemovalSeen(r) ==
    \/ run[r].fileElement \notin dom
    \/ Cardinality(dom) < run[r].initialFileCount

\* The removal wait after the delete click ends (316-345).  by says how:
\* "page": the application detaches the container and the wait sees it;
\* "seen": the predicate of the wait holds already, the page is left as it
\* is; "controller": the wait times out with the container in place and
\* the controller removes it (its li, if it has one, and with it the
\* container).  Either way the item is marked processed.
ItemCompletes(r) ==
    /\ InItem(r)
    /\ run[r].pc = "removal"
    /\ \E by \in {"page", "seen", "controller"} :
          /\ by = "seen" <=> RemovalSeen(r)
          /\ dom' = IF by = "seen" THEN dom ELSE dom \ {run[r].fileElement}
          /\ removedBy' = [removedBy EXCEPT ![r] = by]
          /\ ItemMarked(r, by)
    /\ outcomes' = [outcomes EXCEPT ![r] = Append(@, "ok")]
    /\ underStop' = [underStop EXCEPT ![r] = StopObserved(r)]
    /\ UNCHANGED <<worklist, downloadErrorOccurred, observerVars, timerVars,
                   coordVars, contentVars,
                   toContent, reply, sessionVars, utilVars, picked, failedAt,
                   stopAsked, errorInWindow>>

\* 275-281: the runs between their export click and the test of the flag
\* that follows their download wait.
InDownloadWait == {r \in Runs : InItem(r) /\ run[r].pc = "download"}

\* The download-error observer (398-418) sets the flag; it is installed
\* while a run is in progress.
DownloadError ==
    /\ InDownloadWait # {}
    /\ errorListeners # {} \/ consoleError.kind = "wrapper"
    /\ MayFail
    /\ ~downloadErrorOccurred
    /\ downloadErrorOccurred' = TRUE
    /\ errorInWindow' = errorInWindow \cup InDownloadWait
    /\ UNCHANGED <<worklist, dom, observerVars, timerVars, coordVars,
                   contentVars, run,
                   toContent, toBackground, reply, sessionVars, utilVars,
                   picked, sent, outcomes, failedAt, underStop, stopAsked,
                   removedBy>>

\* ------------------------------------------------------------- content.js
\* content.js 45: the id of the extension and the senders of messages
RuntimeId == "extension"
Senders == {RuntimeId, "other"}

\* The requests a sender may address to the content script.
ContentRequests ==
    {[action |-> a, background |-> b] :
        a \in {"stopExportProcess", "runExportAll", "startElementSelector",
               "stopElementSelector"},
        b \in BOOLEAN}

\* mutant: the listener serves every sender
SenderIsExtension_Any(id) == TRUE

\* content.js 43-48: the listener goes on only for the extension itself.
SenderIsExtension(id) == id = RuntimeId

\* content.js 43-142: the onMessage listener of the content script, for a
\* request of the given sender.  A runExportAll begins the run, which
\* installs the download-error observer before its first await.
OnMessage(request, senderId) ==
    IF ~SenderIsExtension(senderId)
    THEN UNCHANGED <<contentVars, run, downloadErrorOccurred, observerVars>>
    ELSE IF request.action = "stopExportProcess"
    THEN /\ shouldStopExport' = TRUE
         /\ contentResponse' =
               [success |-> TRUE,
                message |-> "Export will stop after current file completes."]
         /\ UNCHANGED <<isBackgroundExporting, selectorActive, run,
                        downloadErrorOccurred, observerVars>>
    ELSE IF request.action = "startElementSelector"
    THEN /\ selectorActive' = TRUE
         /\ contentResponse' =
               [success |-> TRUE, message |-> "Selector started."]
         /\ UNCHANGED <<isBackgroundExporting, shouldStopExport, run,
                        downloadErrorOccurred, observerVars>>
    ELSE IF request.action = "stopElementSelector"
    THEN /\ selectorActive' = FALSE
         /\ contentResponse' =
               [success |-> TRUE, message |-> "Selector stopped."]
         /\ UNCHANGED <<isBackgroundExporting, shouldStopExport, run,
                        downloadErrorOccurred, observerVars>>
    ELSE \* runExportAll
         /\ isBackgroundExporting' = request.background
         /\ shouldStopExport' = FALSE
         /\ contentResponse' =
               [success |-> TRUE, message |-> "Export process starting..."]
         /\ run' = [run EXCEPT
                       ![FirstOf(FreeRuns)] = NewRun(request.background)]
         /\ SetupDownloadErrorListener(FirstOf(FreeRuns))
         /\ UNCHANGED selectorActive

\* The listener takes the next message the extension has sent to the page.
ContentReceives ==
    /\ toContent # << >>
    /\ toContent' = Tail(toContent)
    /\ OnMessage(Head(toContent), RuntimeId)
    /\ UNCHANGED <<coordVars, worklist, dom, timerVars, toBackground, reply,
                   sessionVars, utilVars, historyVars>>

\* popup.js 105-130: the popup switches the element selector of the page
\* on or off.
SelectorMessage ==
    /\ \E a \in {"startElementSelector", "stopElementSelector"} :
          OnMessage([action |-> a, background |-> FALSE], RuntimeId)
    /\ UNCHANGED <<coordVars, worklist, dom, timerVars, toContent,
                   toBackground, reply, sessionVars, utilVars, historyVars>>

\* A sender other than the extension addresses a request to the listener.
ForeignMessage ==
    /\ foreignSeen < MaxForeign
    /\ foreignSeen' = foreignSeen + 1
    /\ \E request \in ContentRequests :
          /\ request.action = "runExportAll" => FreeRuns # {}
          /\ OnMessage(request, "other")
    /\ UNCHANGED <<coordVars, worklist, dom, timerVars, toContent,
                   toBackground, reply, budget, userTabs, faultBudget,
                   optionAt, hidden, suggestion, utilVars, historyVars>>

\* ---------------------------------------------------------------- popup.js
\* runExportAll requests issued so far: runs started or still in flight
Started ==
    Cardinality(Runs \ FreeRuns)
        + Cardinality({i \in DOMAIN toContent :
                          toContent[i].action = "runExportAll"})

\* mutant: the request never asks for background mode
RunExportAllMessage_Foreground(bg) ==
    [action |-> "runExportAll", background |-> FALSE]

RunExportAllMessage(bg) == [action |-> "runExportAll", background |-> bg]

\* The user may ask for another run on the page: the session's budget of
\* runs is not used up.  Nothing in the popup or the content script makes
\* a request wait for the end of a run in progress.
MayStart == Started < budget

\* popup.js 27-46: the popup asks the content script for a foreground run.
ForegroundExport ==
    /\ MayStart
    /\ toContent' = Append(toContent, RunExportAllMessage(FALSE))
    /\ UNCHANGED <<coordVars, pageVars, contentVars, run, toBackground,
                   reply, sessionVars, utilVars, historyVars>>

\* ------------------------------------------------------------ background.js
\* chrome.tabs.sendMessage(tabId, m): reaches the content script of Page;
\* the other tab has no receiver and the rejection is only logged.
TabsSendMessage(t, m) == IF t = Page THEN Append(toContent, m) ELSE toContent

\* the message the stopExport handler forwards (background.js 40)
StopExportProcessMessage ==
    [action |-> "stopExportProcess", background |-> FALSE]

\* mutant: the stopExport handler does not look at the active set
StopAccepted_Always(t) == TRUE

\* The guard of the stopExport handler (background.js 28).
StopAccepted(t) == t \in activeTabIds

\* the background runs in progress on the page
BackgroundRuns == {r \in Runs : Running(r) /\ run[r].backgroundMode}

\* background.js 26-59
StopExport(t) ==
    /\ IF StopAccepted(t)
       THEN /\ stopFlags' = stopFlags \cup {t}
            /\ activeTabIds' = activeTabIds \ {t}
            /\ activeExports' =
                  IF activeExports[t].status # "none"
                  THEN [activeExports EXCEPT ![t].status = "stopped"]
                  ELSE activeExports
            /\ toContent' = TabsSendMessage(t, StopExportProcessMessage)
            /\ stopAsked' = IF t = Page THEN stopAsked \cup BackgroundRuns
                            ELSE stopAsked
            /\ notification' = [title |-> "Export Stopped", tabId |-> t]
       ELSE UNCHANGED <<stopFlags, activeTabIds, activeExports, toContent,
                        stopAsked, notification>>
    /\ reply' = [action |-> "stopExport", tabId |-> t, success |-> TRUE]
    /\ UNCHANGED <<cleanupTimers, keepAlive, notified, openTabs,
                   pageVars, contentVars, run, toBackground,
                   sessionVars, utilVars, picked, sent, outcomes, failedAt,
                   underStop, errorInWindow, removedBy>>

\* mutant: a start leaves the stop flag of the tab as it is
StopFlagsAfterStart_Kept(t) == stopFlags

\* background.js 76: stopFlags.delete(tabId)
StopFlagsAfterStart(t) == stopFlags \ {t}

\* background.js 70-111; the call of keepTabAlive starts a chain of checks.
StartBackgroundExport(t) ==
    /\ t = Page => MayStart
    /\ keepAlive[t] < MaxChains
    /\ keepAlive' = [keepAlive EXCEPT ![t] = @ + 1]
    /\ notification' = [title |-> "Audio Export Started", tabId |-> t]
    /\ activeTabIds' = activeTabIds \cup {t}
    /\ stopFlags' = StopFlagsAfterStart(t)
    /\ activeExports' =
          [activeExports EXCEPT
              ![t] = [status |-> "running", filesProcessed |-> 0,
                      filesErrored |-> 0]]
    /\ toContent' = TabsSendMessage(t, RunExportAllMessage(TRUE))
    /\ reply' =
          [action |-> "startBackgroundExport", tabId |-> t, success |-> TRUE]
    /\ UNCHANGED <<cleanupTimers, notified, openTabs, pageVars, contentVars, run, toBackground,
                   sessionVars, utilVars, historyVars>>

\* background.js 128-131: the progress updates that raise a notification
notifyEvery == 10
ProgressNotified(n) == n % notifyEvery = 0 /\ n > 0

\* background.js 113-176: the coordinator takes the next message of the
\* content script; sender.tab.id is Page.
CoordinatorReceives ==
    /\ toBackground # << >>
    /\ toBackground' = Tail(toBackground)
    /\ LET m == Head(toBackground)
           known == activeExports[Page].status # "none"
       IN  IF m.action = "exportProgressUpdate"
           THEN /\ activeExports' =
                      IF known
                      THEN [activeExports EXCEPT
                               ![Page].filesProcessed = m.filesProcessed,
                               ![Page].filesErrored = m.filesErrored]
                      ELSE activeExports
                /\ IF known /\ ProgressNotified(m.filesProcessed)
                   THEN /\ notification' =
                             [title |-> "Export Progress", tabId |-> Page]
                        /\ notified' = Append(notified, m.filesProcessed)
                   ELSE UNCHANGED <<notification, notified>>
                /\ UNCHANGED cleanupTimers
           ELSE \* exportComplete
                /\ activeExports' =
                      IF known
                      THEN [activeExports EXCEPT
                               ![Page].status = "completed",
                               ![Page].filesProcessed = m.filesProcessed,
                               ![Page].filesErrored = m.filesErrored]
                      ELSE activeExports
                /\ cleanupTimers' =
                      IF known
                      THEN [cleanupTimers EXCEPT ![Page] = @ + 1]
                      ELSE cleanupTimers
                /\ notification' =
                      IF known
                      THEN [title |-> "Audio Export Complete", tabId |-> Page]
                      ELSE notification
                /\ UNCHANGED notified
    /\ UNCHANGED <<activeTabIds, stopFlags, keepAlive, openTabs, pageVars, contentVars, run,
                   toContent, reply, sessionVars, utilVars, historyVars>>

\* background.js 166-171: a cleanup timer set by exportComplete fires.
CleanupTimerFires(t) ==
    /\ cleanupTimers[t] > 0
    /\ cleanupTimers' = [cleanupTimers EXCEPT ![t] = @ - 1]
    /\ activeExports' = [activeExports EXCEPT ![t] = NoExport]
    /\ activeTabIds' = activeTabIds \ {t}
    /\ stopFlags' = stopFlags \ {t}
    /\ UNCHANGED <<keepAlive, notification, notified, openTabs, pageVars,
                   contentVars, run, toContent, toBackground, reply,
                   sessionVars, utilVars, historyVars>>

\* mutant: a stalled export is stopped by the watchdog
ExportsAfterStallWarning_AutoStop(t) ==
    [activeExports EXCEPT ![t].status = "stopped"]

\* background.js 242-257: the stall branch creates a notification and
\* leaves the export data as it is.
ExportsAfterStallWarning(t) == activeExports

\* background.js 206-270: one check of a keepTabAlive chain of tab t.  The
\* chain ends when the tab is no longer active or no longer exists (then
\* its tracking is deleted as well); otherwise the check warns when the
\* export is running and its last update is more than two minutes old
\* (late, the reading of the clock), and schedules the next check.
KeepTabAlive(t) ==
    /\ keepAlive[t] > 0
    /\ IF t \notin activeTabIds
       THEN /\ keepAlive' = [keepAlive EXCEPT ![t] = @ - 1]
            /\ UNCHANGED <<activeExports, activeTabIds, stopFlags,
                           notification>>
       ELSE IF t \notin openTabs
       THEN /\ keepAlive' = [keepAlive EXCEPT ![t] = @ - 1]
            /\ activeTabIds' = activeTabIds \ {t}
            /\ stopFlags' = stopFlags \ {t}
            /\ activeExports' = [activeExports EXCEPT ![t] = NoExport]
            /\ UNCHANGED notification
       ELSE \E late \in BOOLEAN :
               /\ IF activeExports[t].status = "running" /\ late
                  THEN /\ notification' =
                            [title |-> "Export May Be Stalled", tabId |-> t]
                       /\ activeExports' = ExportsAfterStallWarning(t)
                  ELSE UNCHANGED <<notification, activeExports>>
               /\ UNCHANGED <<keepAlive, activeTabIds, stopFlags>>
    /\ UNCHANGED <<cleanupTimers, notified, openTabs, pageVars, contentVars,
                   run, toContent, toBackground, reply, sessionVars, utilVars,
                   historyVars>>

\* background.js 293-308: a tab other than the page's is closed.
TabRemoved(t) ==
    /\ t \in openTabs \ {Page}
    /\ openTabs' = openTabs \ {t}
    /\ IF t \in activeTabIds
       THEN /\ activeTabIds' = activeTabIds \ {t}
            /\ stopFlags' = stopFlags \ {t}
            /\ activeExports' = [activeExports EXCEPT ![t] = NoExport]
            /\ notification' = [title |-> "Export Stopped", tabId |-> t]
       ELSE UNCHANGED <<activeTabIds, stopFlags, activeExports, notification>>
    /\ UNCHANGED <<cleanupTimers, keepAlive, notified, pageVars, contentVars,
                   run, toContent, toBackground, reply, sessionVars, utilVars,
                   historyVars>>

\* background.js 178-187: what the handler of getExportStatus answers for
\* tab t; exportData is null when the tab has no entry.
ExportStatus(t) ==
    [action |-> "getExportStatus", tabId |-> t, success |-> TRUE,
     isRunning |-> t \in activeTabIds,
     exportData |-> activeExports[t]]

\* popup.js 317-322, 434-439: the popup asks for the status of tab t.
GetExportStatus(t) ==
    /\ reply' = ExportStatus(t)
    /\ UNCHANGED <<coordVars, pageVars, contentVars, run, toContent,
                   toBackground, sessionVars, utilVars, historyVars>>

\* background.js 14: the subdirectory of the downloads folder
DOWNLOAD_SUBDIRECTORY == "PlaudExports"

\* The download items of the browser: their file names, and the tab the
\* item says it comes from (none when the browser names no tab).
NoTab == "none"
Filenames == {"rec.mp3", "REC.MP3", "rec.txt"}
ToLowerCase(f) == IF f = "REC.MP3" THEN "rec.mp3" ELSE f
EndsWithMp3(f) == f \in {"rec.mp3"}

\* background.js 317-328: the test of the onDeterminingFilename listener
Redirects(tabId, filename) ==
    /\ tabId # NoTab
    /\ tabId \in activeTabIds
    /\ EndsWithMp3(ToLowerCase(filename))

\* background.js 311-364: the browser asks where a download is to go; the
\* listener suggests the subdirectory or leaves the default.
DeterminingFilename(tabId, filename) ==
    /\ suggestion' =
          [tabId |-> tabId, filename |-> filename,
           suggested |-> IF Redirects(tabId, filename)
                         THEN DOWNLOAD_SUBDIRECTORY ELSE "default"]
    /\ UNCHANGED <<coordVars, pageVars, contentVars, run, toContent,
                   toBackground, reply, budget, userTabs, faultBudget,
                   optionAt, hidden, foreignSeen, utilVars, historyVars>>

\* content.js 160-168, audioExport.js 192: the page is hidden or shown.
VisibilityChange ==
    /\ hidden' = ~hidden
    /\ UNCHANGED <<coordVars, pageVars, contentVars, run, toContent,
                   toBackground, reply, budget, userTabs, faultBudget,
                   optionAt, suggestion, foreignSeen, utilVars, historyVars>>

\* -------------------------------------------------- common/domUtils.js
\* (content.js 171-484)  A call of a utility is studied on its own: its
\* arguments are drawn when the session begins, the page answers each poll.
pollInterval == 250
WaitTimeouts == {k * pollInterval : k \in 0..MaxPolls} \cup {100}
PollOutcomes == {"true", "false", "throws"}

IdleWait ==
    [fn |-> "none", timeout |-> 0, waited |-> 0, polls |-> << >>,
     result |-> "none"]

\* the calls waitForCondition(conditionFn, timeout) and
\* findElementByXPath(xpath, timeout)
WaitCalls ==
    {[IdleWait EXCEPT !.fn = f, !.timeout = t, !.result = "pending"] :
        f \in {"waitForCondition", "findElementByXPath"}, t \in WaitTimeouts}

\* How the call ends when waitForCondition returns, throws its timeout
\* error, or lets the error of its predicate through (content.js 256: the
\* predicate is awaited outside any try).  findElementByXPath returns the
\* element in the first case and null in the two others (279-299).
WaitResult(fn, ending) ==
    IF fn = "waitForCondition"
    THEN ending
    ELSE IF ending = "returned" THEN "element" ELSE "null"

\* content.js 255-262: one pass of the loop of waitForCondition
WaitPolls ==
    /\ wait.result = "pending"
    /\ wait.waited < wait.timeout
    /\ \E o \in PollOutcomes :
          wait' =
             [wait EXCEPT
                 !.polls = Append(@, o),
                 !.waited = IF o = "false" THEN @ + pollInterval ELSE @,
                 !.result =
                     IF o = "true" THEN WaitResult(wait.fn, "returned")
                     ELSE IF o = "throws" THEN WaitResult(wait.fn, "threw")
                     ELSE @]
    /\ UNCHANGED <<coordVars, pageVars, contentVars, run, toContent,
                   toBackground, reply, sessionVars, historyVars, rclick,
                   menuWait, clickVars>>

\* content.js 264-266: the loop is left and the timeout error thrown
WaitTimesOut ==
    /\ wait.result = "pending"
    /\ wait.waited >= wait.timeout
    /\ wait' = [wait EXCEPT !.result = WaitResult(wait.fn, "timeout")]
    /\ UNCHANGED <<coordVars, pageVars, contentVars, run, toContent,
                   toBackground, reply, sessionVars, historyVars, rclick,
                   menuWait, clickVars>>

menuSelector == ".context-menu, [role='menu']"
NoError == [message |-> "none", selector |-> "", attempts |-> 0]

IdleRightClick ==
    [valid |-> FALSE, maxRetries |-> 0, attempt |-> 0, pc |-> "none",
     dispatched |-> 0, bodyClicks |-> 0, backoffs |-> 0, menus |-> << >>,
     result |-> "none", error |-> NoError]

\* the calls rightClickWithRetry(element, maxRetries): the element is a
\* DOM element or not; the default of maxRetries is 3.
RightClickCalls ==
    {[IdleRightClick EXCEPT !.valid = v, !.maxRetries = n, !.pc = "entry",
                            !.result = "pending"] :
        v \in BOOLEAN, n \in 0..MaxRetriesArg}

\* content.js 480-483: the error thrown when every attempt has failed
RetriesExhausted(n) ==
    [message |-> "Failed to trigger and find context menu",
     selector |-> menuSelector, attempts |-> n]

\* The for loop goes to its next attempt or is left (421, 480-483).
NextAttempt(c) ==
    IF c.attempt + 1 <= c.maxRetries
    THEN [c EXCEPT !.attempt = @ + 1, !.pc = "dispatch"]
    ELSE [c EXCEPT !.attempt = @ + 1, !.pc = "done", !.result = "threw",
                   !.error = RetriesExhausted(c.maxRetries)]

\* content.js 415-421: the check of the element and the entry of the loop
RightClickEnters ==
    /\ rclick.pc = "entry"
    /\ rclick' =
          IF ~rclick.valid
          THEN [rclick EXCEPT
                   !.pc = "done", !.result = "threw",
                   !.error = [NoError EXCEPT
                                 !.message = "Invalid element provided"]]
          ELSE NextAttempt(rclick)
    /\ UNCHANGED <<coordVars, pageVars, contentVars, run, toContent,
                   toBackground, reply, sessionVars, historyVars, wait,
                   menuWait, clickVars>>

\* content.js 426-452: the contextmenu event of the attempt is dispatched
RightClickDispatches ==
    /\ rclick.pc = "dispatch"
    /\ rclick' = [rclick EXCEPT !.dispatched = @ + 1, !.pc = "menu"]
    /\ UNCHANGED <<coordVars, pageVars, contentVars, run, toContent,
                   toBackground, reply, sessionVars, historyVars, wait,
                   menuWait, clickVars>>

\* content.js 454-466: the bounded wait for the menu finds it and the call
\* returns it, or it times out and the body is clicked
RightClickMenuWait ==
    /\ rclick.pc = "menu"
    /\ \E o \in {"found", "timeout"} :
          rclick' =
             IF o = "found"
             THEN [rclick EXCEPT !.menus = Append(@, o), !.pc = "done",
                                 !.result = "returned"]
             ELSE [rclick EXCEPT !.menus = Append(@, o),
                                 !.bodyClicks = @ + 1, !.pc = "backoff"]
    /\ UNCHANGED <<coordVars, pageVars, contentVars, run, toContent,
                   toBackground, reply, sessionVars, historyVars, wait,
                   menuWait, clickVars>>

\* mutant: the one-second delay follows every failed attempt
BackoffAfter_Always(attempt, maxRetries) == TRUE

\* content.js 475: the one-second delay separates two attempts
BackoffAfter(attempt, maxRetries) == attempt < maxRetries

\* content.js 474-478: the end of a failed attempt
RightClickBacksOff ==
    /\ rclick.pc = "backoff"
    /\ rclick' =
          NextAttempt(
             [rclick EXCEPT
                 !.backoffs =
                     IF BackoffAfter(rclick.attempt, rclick.maxRetries)
                     THEN @ + 1 ELSE @])
    /\ UNCHANGED <<coordVars, pageVars, contentVars, run, toContent,
                   toBackground, reply, sessionVars, historyVars, wait,
                   menuWait, clickVars>>

\* ------------------------------------- audioExport/audioExportUtils.js
\* waitForDeleteMenuItem (17-71): the call is studied on its own; at each
\* pass of its loop the page holds a menu item whose text contains a
\* delete label ("menuitem"), a div, span, li or button whose text is a
\* delete label ("exact"), both, or neither.
deletePollInterval == 250
broadenAfter == 5000
defaultMaxWaitMs == 15000
MenuWaitArgs == {0, deletePollInterval, broadenAfter, defaultMaxWaitMs}
MenuPages == {"menuitem", "exact", "both", "none"}

IdleMenuWait ==
    [maxWaitMs |-> 0, waited |-> 0, page |-> "none", broadened |-> FALSE,
     result |-> "none"]
MenuWaitCalls ==
    {[IdleMenuWait EXCEPT !.maxWaitMs = m, !.result = "pending"] :
        m \in MenuWaitArgs}

\* mutant: the broader scan starts at the tick of 5 seconds
BroadScanDue_AtFive(waited) == waited >= broadenAfter

\* audioExportUtils.js 50: if (waited > 5000)
BroadScanDue(waited) == waited > broadenAfter

\* 36-61: what one pass of the loop finds: the first menu item that
\* matches, else (when the broader scan is due) the first element whose
\* text is a delete label, else nothing.
MenuPassFinds(page, waited) ==
    IF page \in {"menuitem", "both"} THEN "primary"
    ELSE IF BroadScanDue(waited) /\ page = "exact" THEN "fallback"
    ELSE "pending"

\* 34-65: one pass of the loop
MenuWaitPolls ==
    /\ menuWait.result = "pending"
    /\ menuWait.waited < menuWait.maxWaitMs
    /\ \E page \in MenuPages :
          LET found == MenuPassFinds(page, menuWait.waited)
          IN  menuWait' =
                 [menuWait EXCEPT
                     !.page = page,
                     !.broadened =
                         page \notin {"menuitem", "both"}
                             /\ BroadScanDue(menuWait.waited),
                     !.result = found,
                     !.waited = IF found = "pending"
                                THEN @ + deletePollInterval ELSE @]
    /\ UNCHANGED <<coordVars, pageVars, contentVars, run, toContent,
                   toBackground, reply, sessionVars, historyVars, wait,
                   rclick, clickVars>>

\* 67-70: the loop is left and the timeout error thrown
MenuWaitTimesOut ==
    /\ menuWait.result = "pending"
    /\ menuWait.waited >= menuWait.maxWaitMs
    /\ menuWait' = [menuWait EXCEPT !.result = "threw"]
    /\ UNCHANGED <<coordVars, pageVars, contentVars, run, toContent,
                   toBackground, reply, sessionVars, historyVars, wait,
                   rclick, clickVars>>

\* ------------------------------------------- content.js: clickElement
\* (content.js 309-352)  The inline outline and z-index of the element.
InlineStyles ==
    [outline : {"", "1px dotted"}, zIndex : {"", "5"}]
Highlight == [outline |-> "3px solid rgba(255, 0, 0, 0.8)", zIndex |-> "9999"]
NoStyle == [outline |-> "unset", zIndex |-> "unset"]
Clicks == 1..MaxClicks

\* the calls clickElement(element, postClickWaitMs): the element is valid
\* or not, its click() throws or not; atEntry is the history of the style
\* the element had when the call was made.
IdleClick ==
    [valid |-> TRUE, postClickWaitMs |-> 500, clickThrows |-> FALSE,
     pc |-> "idle", original |-> NoStyle, atEntry |-> NoStyle,
     path |-> "none"]
ClickCalls ==
    {[IdleClick EXCEPT !.valid = v, !.postClickWaitMs = w,
                       !.clickThrows = t] :
        v \in BOOLEAN, w \in {0, 500}, t \in BOOLEAN}
ClicksIdle ==
    /\ clicks = [c \in Clicks |-> IdleClick]
    /\ style = [outline |-> "", zIndex |-> ""]

\* 310-317: the check of the argument, scrollIntoView, await delay(500)
ClickEnters(c) ==
    /\ clicks[c].pc = "idle"
    /\ clicks' = [clicks EXCEPT
                     ![c].pc = IF clicks[c].valid THEN "scroll" ELSE "threw",
                     ![c].atEntry = style]
    /\ UNCHANGED <<coordVars, pageVars, contentVars, run, toContent,
                   toBackground, reply, sessionVars, historyVars, wait,
                   rclick, menuWait, style>>

\* 320-326: the style is saved and the highlight applied; await delay(300)
ClickHighlights(c) ==
    /\ clicks[c].pc = "scroll"
    /\ clicks' = [clicks EXCEPT ![c].pc = "flash", ![c].original = style]
    /\ style' = Highlight
    /\ UNCHANGED <<coordVars, pageVars, contentVars, run, toContent,
                   toBackground, reply, sessionVars, historyVars, wait,
                   rclick, menuWait>>

\* 328-351: the native click or, when it throws, the dispatched click
\* event; then the saved style is written back.
ClickClicks(c) ==
    /\ clicks[c].pc = "flash"
    /\ clicks' = [clicks EXCEPT
                     ![c].path = IF clicks[c].clickThrows THEN "dispatched"
                                 ELSE "native",
                     ![c].pc = IF clicks[c].postClickWaitMs > 0 THEN "post"
                               ELSE "returned"]
    /\ style' = clicks[c].original
    /\ UNCHANGED <<coordVars, pageVars, contentVars, run, toContent,
                   toBackground, reply, sessionVars, historyVars, wait,
                   rclick, menuWait>>

\* 349-351: await delay(postClickWaitMs)
ClickReturns(c) ==
    /\ clicks[c].pc = "post"
    /\ clicks' = [clicks EXCEPT ![c].pc = "returned"]
    /\ UNCHANGED <<coordVars, pageVars, contentVars, run, toContent,
                   toBackground, reply, sessionVars, historyVars, wait,
                   rclick, menuWait, style>>

\* ------------------------------------------------------------ specifications
InitExtension(lists, n, tabs, f) ==
    /\ worklist \in lists
    /\ dom = DOMAIN worklist
    /\ activeExports = [t \in Tabs |-> NoExport]
    /\ activeTabIds = {}
    /\ stopFlags = {}
    /\ cleanupTimers = [t \in Tabs |-> 0]
    /\ keepAlive = [t \in Tabs |-> 0]
    /\ notification = NoNotification
    /\ notified = << >>
    /\ openTabs = Tabs
    /\ faultBudget = f
    /\ isBackgroundExporting = FALSE
    /\ shouldStopExport = FALSE
    /\ downloadErrorOccurred = FALSE
    /\ downloadErrorListener = NoListener
    /\ originalConsoleError = NoFunction
    /\ consoleError = NativeConsoleError
    /\ errorListeners = {}
    /\ run = [r \in Runs |-> IdleRun]
    /\ toContent = << >>
    /\ toBackground = << >>
    /\ reply = [action |-> "none", tabId |-> Page, success |-> FALSE]
    /\ budget = n
    /\ userTabs = tabs
    /\ picked = [r \in Runs |-> << >>]
    /\ sent = [r \in Runs |-> << >>]
    /\ outcomes = [r \in Runs |-> << >>]
    /\ failedAt = [r \in Runs |-> "none"]
    /\ underStop = [r \in Runs |-> FALSE]
    /\ removedBy = [r \in Runs |-> "none"]
    /\ stopAsked = {}
    /\ errorInWindow = {}
    /\ scrollIntervals = [r \in Runs |-> 0]
    /\ pollIntervals = {}
    /\ contentResponse = NoResponse
    /\ selectorActive = FALSE
    /\ suggestion = NoSuggestion
    /\ foreignSeen = 0

\* The sessions of the extension: no utility call is studied on its own.
InitWith(lists, n, tabs, f) ==
    /\ InitExtension(lists, n, tabs, f)
    /\ wait = IdleWait
    /\ rclick = IdleRightClick
    /\ menuWait = IdleMenuWait
    /\ ClicksIdle
    /\ optionAt = "popover"
    /\ hidden = FALSE

\* Sessions in which the user starts one run on a page of up to MaxItems
\* items, and uses the popup on every tab.
Init == InitWith(Worklists, 1, Tabs, NoFaultLimit)

\* Sessions in which up to MaxRuns runs are started on a short page, one
\* after the other or while an earlier run is in progress; the popup is
\* used on the page's tab.
InitOverlap == InitWith(SharedWorklists, MaxRuns, {Page}, NoFaultLimit)

\* Sessions in which the coordinator serves both tabs while one run is
\* started on a short page.
InitTabs == InitWith(SharedWorklists, 1, Tabs, NoFaultLimit)

\* Sessions in which one run is started on a long page on which at most one
\* item fails.
InitLong == InitWith(LongWorklists, 1, {Page}, 1)

\* Sessions in which one run is started on a short page whose "Export
\* Audio" option is in the popover, elsewhere in the page, or missing.
InitOption ==
    /\ InitExtension(SharedWorklists, 1, {Page}, NoFaultLimit)
    /\ wait = IdleWait
    /\ rclick = IdleRightClick
    /\ menuWait = IdleMenuWait
    /\ ClicksIdle
    /\ optionAt \in OptionPlaces
    /\ hidden = FALSE

Next ==
    \/ \E r \in Runs : LoopIteration(r)
    \/ \E r \in Runs : StepSucceeds(r)
    \/ \E r \in Runs : StepFails(r)
    \/ \E r \in Runs : ItemCompletes(r)
    \/ DownloadError
    \/ ContentReceives
    \/ ForegroundExport
    \/ \E t \in userTabs \cap openTabs : StopExport(t)
    \/ \E t \in userTabs \cap openTabs : StartBackgroundExport(t)
    \/ CoordinatorReceives
    \/ \E t \in Tabs : CleanupTimerFires(t)

\* The sessions of NextTabs last long enough for the 30 s checks of
\* keepTabAlive to run and for tabs to be closed.
NextTabs ==
    \/ Next
    \/ \E t \in Tabs : KeepTabAlive(t)
    \/ \E t \in Tabs : TabRemoved(t)
    \/ \E t \in userTabs \cap openTabs : GetExportStatus(t)

Spec == Init /\ [][Next]_vars
SpecOverlap == InitOverlap /\ [][Next]_vars
SpecLong == InitLong /\ [][Next]_vars
SpecTabs == InitTabs /\ [][NextTabs]_vars
SpecOption == InitOption /\ [][Next]_vars

\* Sessions in which one run is started on a short page that is hidden
\* or shown when the session begins.
InitBrowser ==
    /\ InitExtension(SharedWorklists, 1, {Page}, NoFaultLimit)
    /\ wait = IdleWait
    /\ rclick = IdleRightClick
    /\ menuWait = IdleMenuWait
    /\ ClicksIdle
    /\ optionAt = "popover"
    /\ hidden \in BOOLEAN

\* ... while the browser hides and shows the page
NextHidden ==
    \/ Next
    \/ VisibilityChange
SpecHidden == InitBrowser /\ [][NextHidden]_vars

\* ... while the browser reports downloads
NextDownloads ==
    \/ Next
    \/ \E t \in Tabs \cup {NoTab}, f \in Filenames : DeterminingFilename(t, f)
SpecDownloads == InitBrowser /\ [][NextDownloads]_vars

\* ... while the popup switches the element selector and other senders
\* address the content script
NextForeign ==
    \/ Next
    \/ SelectorMessage
    \/ ForeignMessage
SpecForeign == InitBrowser /\ [][NextForeign]_vars

\* One call of a utility of domUtils.js, on its own.
InitUtils ==
    /\ InitExtension({<< >>}, 0, {Page}, 0)
    /\ optionAt = "popover"
    /\ hidden = FALSE
    /\ ClicksIdle
    /\ \/ wait \in WaitCalls /\ rclick = IdleRightClick
                            /\ menuWait = IdleMenuWait
       \/ wait = IdleWait /\ rclick \in RightClickCalls
                          /\ menuWait = IdleMenuWait
       \/ wait = IdleWait /\ rclick = IdleRightClick
                          /\ menuWait \in MenuWaitCalls
NextUtils ==
    \/ WaitPolls
    \/ WaitTimesOut
    \/ RightClickEnters
    \/ RightClickDispatches
    \/ RightClickMenuWait
    \/ RightClickBacksOff
    \/ MenuWaitPolls
    \/ MenuWaitTimesOut
SpecUtils == InitUtils /\ [][NextUtils]_vars

\* Calls of clickElement on one element, one after the other or while an
\* earlier call is waiting.
InitClicks ==
    /\ InitExtension({<< >>}, 0, {Page}, 0)
    /\ optionAt = "popover"
    /\ hidden = FALSE
    /\ wait = IdleWait
    /\ rclick = IdleRightClick
    /\ menuWait = IdleMenuWait
    /\ clicks \in [Clicks -> ClickCalls]
    /\ style \in InlineStyles
NextClicks ==
    \/ \E c \in Clicks : ClickEnters(c)
    \/ \E c \in Clicks : ClickHighlights(c)
    \/ \E c \in Clicks : ClickClicks(c)
    \/ \E c \in Clicks : ClickReturns(c)
SpecClicks == InitClicks /\ [][NextClicks]_vars

\* A run in progress is not suspended for ever: its waits are bounded and
\* its awaited calls settle, so its next step is eventually taken.
RunStep(r) ==
    \/ LoopIteration(r)
    \/ StepSucceeds(r)
    \/ StepFails(r)
    \/ ItemCompletes(r)
SpecLive == Spec /\ \A r \in Runs : WF_vars(RunStep(r))

\* ------------------------------------------------------------------ claims
PickedSet(r) == {picked[r][i] : i \in DOMAIN picked[r]}
Counted(r) == run[r].filesProcessed + run[r].filesErrored
CountOf(seq, n, x) == Cardinality({j \in 1..n : seq[j] = x})
ThreeErrorsInARow(r) ==
    LET n == Len(outcomes[r])
    IN  n >= 3 /\ \A i \in 1..n : i + 2 >= n => outcomes[r][i] = "err"
\* C1: within one run no title is picked twice: the title of the item in
\* flight is not in processedTitles, and between two items processedTitles
\* holds exactly the titles picked so far, failed ones included.
C1_NoTitlePickedTwice ==
    \A r \in Runs :
        /\ \A i, j \in DOMAIN picked[r] :
              i # j => picked[r][i] # picked[r][j]
        /\ InItem(r) =>
              /\ run[r].fileTitle = picked[r][Len(picked[r])]
              /\ run[r].fileTitle \notin run[r].processedTitles
              /\ run[r].processedTitles \cup {run[r].fileTitle} = PickedSet(r)
        /\ ~InItem(r) => run[r].processedTitles = PickedSet(r)

\* C1 witness: a run ended on the page A, A, B having picked A once (it
\* failed, its container stayed) and B, with the second A never picked.
C1_Witness ==
    \E r \in Runs :
        /\ Ended(r)
        /\ worklist = <<"A", "A", "B">>
        /\ picked[r] = <<"A", "B">>
        /\ {1, 2} \subseteq dom

\* C2: at the head of the loop, a run whose last three items failed in a
\* row ends as FatalError without picking an item, whatever remains to be
\* processed, unless the stop signal is seen first (then it ends as
\* Stopped); a run that has not failed three times in a row never ends as
\* FatalError.
C2_FatalAfterThreeErrors ==
    [][\A r \in Runs :
          (AtLoop(r) /\ run'[r] # run[r]) =>
              IF StopObserved(r) THEN run'[r].state = "Stopped"
              ELSE IF ThreeErrorsInARow(r)
              THEN run'[r].state = "FatalError" /\ picked'[r] = picked[r]
              ELSE run'[r].state # "FatalError"]_vars

\* C2 witness: a run ended as FatalError after three failures with nothing
\* left to process.
C2_Witness ==
    \E r \in Runs :
        /\ run[r].state = "FatalError"
        /\ outcomes[r] = <<"err", "err", "err">>
        /\ UnprocessedFiles(r) = {}

\* C3 (as claimed): a run ended by the consecutive-error ceiling rejects
\* its promise, so the content script answers with the error payload.
C3_FatalErrorRejects ==
    \A r \in Runs : run[r].state = "FatalError" => run[r].settled = "rejected"

\* C4: while the stop flag of its tab is set, a background run takes its
\* item in flight to its end, where the item is counted and its title
\* marked, and at the head of the loop it ends as Stopped without picking
\* an item.
C4_StopAfterItemInFlight ==
    [][\A r \in Runs :
          (run[r].backgroundMode /\ Page \in stopFlags /\ run'[r] # run[r]) =>
              IF InItem(r)
              THEN /\ run'[r].state = "Running"
                   /\ picked'[r] = picked[r]
                   /\ \/ /\ run'[r].pc \in ItemPcs
                         /\ run'[r].fileTitle = run[r].fileTitle
                         /\ run'[r].processedTitles = run[r].processedTitles
                      \/ /\ run'[r].pc = "loop"
                         /\ run[r].fileTitle \in run'[r].processedTitles
                         /\ Counted(r)' = Counted(r) + 1
                         /\ underStop'[r]
              ELSE /\ run'[r].state = "Stopped"
                   /\ picked'[r] = picked[r]
                   /\ run'[r].processedTitles = run[r].processedTitles
                   /\ Counted(r)' = Counted(r)]_vars

\* C4 witness: on the page A, B, C the stop flag was set while B was in
\* flight; the run ended as Stopped with A and B processed and C in place.
C4_Witness ==
    \E r \in Runs :
        /\ run[r].state = "Stopped"
        /\ underStop[r]
        /\ worklist = <<"A", "B", "C">>
        /\ picked[r] = <<"A", "B">>
        /\ run[r].processedTitles = {"A", "B"}
        /\ Counted(r) = 2
        /\ 3 \in dom

\* C5: between two items and after the run, filesProcessed + filesErrored
\* is the number of titles in processedTitles.
C5_CountersMatchProcessed ==
    \A r \in Runs :
        ~InItem(r) => Counted(r) = Cardinality(run[r].processedTitles)

\* C5 witness: a run ended with two items exported and one failed.
C5_Witness ==
    \E r \in Runs :
        /\ Ended(r)
        /\ run[r].filesProcessed = 2
        /\ run[r].filesErrored = 1

\* C6: a step of a run with an item in flight never ends the run; when the
\* step throws, filesErrored and the consecutive-error counter grow by one,
\* filesProcessed stays and the run is back at the head of the loop.
C6_ItemErrorCaught ==
    [][\A r \in Runs :
          (InItem(r) /\ run'[r] # run[r]) =>
              /\ run'[r].state = "Running"
              /\ failedAt'[r] # "none" =>
                    /\ failedAt'[r] = run[r].pc
                    /\ run'[r].filesErrored = run[r].filesErrored + 1
                    /\ run'[r].errorCount = run[r].errorCount + 1
                    /\ run'[r].filesProcessed = run[r].filesProcessed
                    /\ run'[r].pc = "loop"]_vars

\* C6 witness: an item failed at its last throwing step, the delete click,
\* and the run is at the head of the loop with one error counted.
C6_Witness ==
    \E r \in Runs :
        /\ AtLoop(r)
        /\ failedAt[r] = "deleteclick"
        /\ run[r].filesErrored = 1
        /\ run[r].errorCount = 1

\* C7 (as claimed): at most one run is in progress on the page.
C7_OneRunPerTarget == Cardinality({r \in Runs : Running(r)}) <= 1

\* C8 (as claimed): every stopExport sets the stop flag of its target,
\* forwards stopExportProcess and is acknowledged with success.
C8_StopAlwaysSetsFlag ==
    [][(reply' # reply /\ reply'.action = "stopExport") =>
          /\ reply'.success
          /\ reply'.tabId \in stopFlags'
          /\ reply'.tabId = Page =>
                toContent' = Append(toContent, StopExportProcessMessage)]_vars

\* C8 (amended): a stopExport for a target of the active set sets its stop
\* flag, takes it out of the active set and forwards stopExportProcess;
\* for any other target it changes and forwards nothing; both are
\* acknowledged with success.
C8_StopSetsFlagOfActiveTarget ==
    [][(reply' # reply /\ reply'.action = "stopExport") =>
          LET t == reply'.tabId
          IN  /\ reply'.success
              /\ IF t \in activeTabIds
                 THEN /\ stopFlags' = stopFlags \cup {t}
                      /\ activeTabIds' = activeTabIds \ {t}
                      /\ t = Page =>
                            toContent' =
                               Append(toContent, StopExportProcessMessage)
                 ELSE UNCHANGED <<stopFlags, activeTabIds, activeExports,
                                  toContent>>]_vars

\* C8 witness: the stop of the running page was accepted: its flag is set
\* and stopExportProcess is on its way to the content script.
C8_Witness ==
    /\ reply = [action |-> "stopExport", tabId |-> Page, success |-> TRUE]
    /\ Page \in stopFlags
    /\ toContent # << >>
    /\ toContent[Len(toContent)] = StopExportProcessMessage

\* C9 (as claimed): every run, foreground or background, that is at the
\* head of the loop while the stop flag is set ends as Stopped.
C9_EveryRunObservesStop ==
    [][\A r \in Runs :
          (AtLoop(r) /\ Page \in stopFlags /\ run'[r] # run[r]) =>
              run'[r].state = "Stopped" /\ picked'[r] = picked[r]]_vars

\* C9 (amended): a background run at the head of the loop while the stop
\* flag is set ends as Stopped with its counters as they are and picks
\* nothing; no run becomes Stopped in any other way: not a foreground run,
\* not a run with an item in flight, not while the flag is not set.
C9_BackgroundRunObservesStop ==
    [][\A r \in Runs :
          run'[r] # run[r] =>
              IF AtLoop(r) /\ run[r].backgroundMode /\ Page \in stopFlags
              THEN /\ run'[r] = [run[r] EXCEPT !.state = "Stopped",
                                               !.pc = "ended",
                                               !.settled = "resolved"]
                   /\ picked'[r] = picked[r]
              ELSE run'[r].state # "Stopped"]_vars

\* C9 witness: a background run ended as Stopped while containers it had
\* not processed were still on the page.
C9_Witness ==
    \E r \in Runs :
        /\ run[r].backgroundMode
        /\ run[r].state = "Stopped"
        /\ UnprocessedFiles(r) # {}

\* C10 (as claimed): every run has emitted one progress event per item it
\* finished.
C10_OneEventPerItem ==
    \A r \in Runs : Len(sent[r]) = Len(outcomes[r])

\* C10 (amended): a background run has emitted one progress event per item
\* it finished, the i-th carrying the title of the i-th item and the
\* counters after it; a foreground run emits none.
C10_OneEventPerItemInBackground ==
    \A r \in Runs :
        IF run[r].backgroundMode
        THEN /\ Len(sent[r]) = Len(outcomes[r])
             /\ \A i \in DOMAIN sent[r] :
                   /\ sent[r][i].action = "exportProgressUpdate"
                   /\ sent[r][i].currentTitle = picked[r][i]
                   /\ sent[r][i].filesProcessed = CountOf(outcomes[r], i, "ok")
                   /\ sent[r][i].filesErrored = CountOf(outcomes[r], i, "err")
        ELSE sent[r] = << >>

\* C10 witness: a background run finished an item well and failed another
\* and has emitted two events.
C10_Witness ==
    \E r \in Runs :
        /\ run[r].backgroundMode
        /\ outcomes[r] = <<"ok", "err">>
        /\ Len(sent[r]) = 2

EventSum(m) == m.filesProcessed + m.filesErrored
Titles == {worklist[e] : e \in DOMAIN worklist} \ {""}
DistinctTitles ==
    /\ \A e \in DOMAIN worklist : worklist[e] # ""
    /\ \A e, f \in DOMAIN worklist : e # f => worklist[e] # worklist[f]
NoThreeErrorsInARow(r) ==
    \A i \in DOMAIN outcomes[r] :
        i + 2 <= Len(outcomes[r]) =>
            \E j \in i..(i + 2) : outcomes[r][j] = "ok"

\* C11: in the sequence of progress events a run has emitted, the sum
\* filesProcessed + filesErrored of the first event is 1 and the sum of
\* every later event is one more than that of the event before it.
C11_EventSumGrowsByOne ==
    \A r \in Runs :
        \A i \in DOMAIN sent[r] :
            EventSum(sent[r][i]) = IF i = 1 THEN 1
                                   ELSE EventSum(sent[r][i - 1]) + 1

\* C11 witness: a run has emitted three events, for an exported, a failed
\* and again an exported item.
C11_Witness ==
    \E r \in Runs :
        /\ Len(sent[r]) = 3
        /\ outcomes[r] = <<"ok", "err", "ok">>

\* C12: at the head of the loop, a run that sees no stop signal, is below
\* the error ceiling and whose scan yields nothing (the page has no
\* container, or the wait of the scan times out) ends as Completed with
\* its counters as they are; on a page without containers every run that
\* is not stopped ends as Completed with both counters at zero and no item
\* picked.
C12_EmptyScanCompletes ==
    [][\A r \in Runs :
          /\ (/\ AtLoop(r) /\ run'[r] # run[r]
              /\ ~StopObserved(r) /\ run[r].errorCount < maxErrors
              /\ UnprocessedFiles(r) = {}) =>
                 /\ run'[r].state = "Completed"
                 /\ Counted(r)' = Counted(r)
                 /\ picked'[r] = picked[r]
          /\ (worklist = << >> /\ Ended(r)') =>
                 /\ run'[r].state \in {"Completed", "Stopped"}
                 /\ run'[r].filesProcessed = 0
                 /\ run'[r].filesErrored = 0
                 /\ picked'[r] = << >>]_vars

\* C12 witness: a run on a page without containers ended as Completed with
\* nothing counted.
C12_Witness ==
    \E r \in Runs :
        /\ worklist = << >>
        /\ run[r].state = "Completed"
        /\ Counted(r) = 0

\* C13: on a page of distinct non-empty titles, a run that has ended, was
\* not stopped and never failed three items in a row has ended as
\* Completed, has finished every item exactly once, holds every title in
\* processedTitles, and its counters are the numbers of items that went
\* well and of items that failed.
C13_CompletedCountsEveryItem ==
    \A r \in Runs :
        (/\ DistinctTitles /\ Ended(r)
         /\ run[r].state # "Stopped" /\ NoThreeErrorsInARow(r)) =>
            /\ run[r].state = "Completed"
            /\ Len(outcomes[r]) = Len(worklist)
            /\ run[r].processedTitles = Titles
            /\ run[r].filesProcessed =
                  CountOf(outcomes[r], Len(outcomes[r]), "ok")
            /\ run[r].filesErrored =
                  CountOf(outcomes[r], Len(outcomes[r]), "err")

\* C13 witness: on the page A, B, C item B failed and the run ended as
\* Completed with 2 exported, 1 failed and all three titles processed.
C13_Witness ==
    \E r \in Runs :
        /\ worklist = <<"A", "B", "C">>
        /\ outcomes[r] = <<"ok", "err", "ok">>
        /\ run[r].state = "Completed"
        /\ run[r].filesProcessed = 2
        /\ run[r].filesErrored = 1
        /\ run[r].processedTitles = {"A", "B", "C"}

\* C14: when the removal wait times out (the container is attached and the
\* page has not fewer containers than before the delete click), the
\* controller detaches the container, the title is marked processed,
\* filesProcessed grows by one, filesErrored stays and the
\* consecutive-error counter is zero; the controller removes a container
\* in no other case.
C14_ForcedRemovalIsSuccess ==
    [][\A r \in Runs :
          (removedBy'[r] = "controller" /\ run'[r] # run[r]) =>
              /\ InItem(r) /\ run[r].pc = "removal"
              /\ ~RemovalSeen(r)
              /\ dom' = dom \ {run[r].fileElement}
              /\ run[r].fileTitle \in run'[r].processedTitles
              /\ run'[r].filesProcessed = run[r].filesProcessed + 1
              /\ run'[r].filesErrored = run[r].filesErrored
              /\ run'[r].errorCount = 0
              /\ run'[r].pc = "loop"]_vars

\* C14 witness: after a failed item, an item whose container had to be
\* removed by the controller is counted as exported and the
\* consecutive-error counter is back at zero.
C14_Witness ==
    \E r \in Runs :
        /\ AtLoop(r)
        /\ removedBy[r] = "controller"
        /\ outcomes[r] = <<"err", "ok">>
        /\ run[r].filesProcessed = 1
        /\ run[r].filesErrored = 1
        /\ run[r].errorCount = 0

\* C15: a run picks at most as many items as the page has distinct titles,
\* so the head of its loop is passed at most that number plus one times
\* (once more to end the run), and every run in progress eventually ends
\* as Stopped, Completed or FatalError.
C15_RunTerminates ==
    /\ [](\A r \in Runs :
             run[r].fileCount + (IF Ended(r) THEN 1 ELSE 0)
                 <= Cardinality(Titles) + 1)
    /\ \A r \in Runs : Running(r) ~> Ended(r)

\* C15 witness: a run ended after picking every title of a page of three
\* items, that is after four passes of the head of its loop.
C15_Witness ==
    \E r \in Runs :
        /\ Ended(r)
        /\ Len(worklist) = 3
        /\ DistinctTitles
        /\ run[r].fileCount = 3

\* C16: a startBackgroundExport for tab t (the step that starts a chain of
\* keepTabAlive checks for t) puts t in the active set, clears its stop
\* flag, records status running with both counters at zero, forwards
\* runExportAll with background true to the tab and is acknowledged.
C16_StartRegistersTarget ==
    [][\A t \in Tabs :
          keepAlive'[t] = keepAlive[t] + 1 =>
              /\ activeTabIds' = activeTabIds \cup {t}
              /\ stopFlags' = stopFlags \ {t}
              /\ activeExports' =
                    [activeExports EXCEPT
                        ![t] = [status |-> "running", filesProcessed |-> 0,
                                filesErrored |-> 0]]
              /\ t = Page =>
                    toContent' =
                       Append(toContent,
                              [action |-> "runExportAll", background |-> TRUE])
              /\ reply' = [action |-> "startBackgroundExport", tabId |-> t,
                           success |-> TRUE]]_vars

\* C16 witness: a background export was started on the page: the tab is
\* active without stop flag, its counters are zero and runExportAll is on
\* its way to the content script.
C16_Witness ==
    /\ reply = [action |-> "startBackgroundExport", tabId |-> Page,
                success |-> TRUE]
    /\ Page \in activeTabIds \ stopFlags
    /\ activeExports[Page] =
          [status |-> "running", filesProcessed |-> 0, filesErrored |-> 0]
    /\ toContent # << >>
    /\ toContent[Len(toContent)] =
          [action |-> "runExportAll", background |-> TRUE]

\* C17: the step in which keepTabAlive warns that the export of a tab may
\* be stalled is taken for an active tab whose status is running, and it
\* changes neither activeTabIds nor stopFlags nor any export data.
C17_StallWarningChangesNothing ==
    [][(/\ notification' # notification
        /\ notification'.title = "Export May Be Stalled") =>
          /\ notification'.tabId \in activeTabIds
          /\ activeExports[notification'.tabId].status = "running"
          /\ UNCHANGED <<activeTabIds, stopFlags, activeExports>>]_vars

\* C17 witness: the watchdog warned about the page while its run was in
\* progress, and the export is still tracked as running.
C17_Witness ==
    /\ notification = [title |-> "Export May Be Stalled", tabId |-> Page]
    /\ Page \in activeTabIds
    /\ activeExports[Page].status = "running"
    /\ \E r \in Runs : InItem(r) /\ run[r].backgroundMode

\* C18 (as claimed): the coordinator has issued at most one progress
\* notification for each value of filesProcessed, each for a positive
\* multiple of ten.
C18_OneNotificationPerTen ==
    /\ \A i \in DOMAIN notified :
          notified[i] > 0 /\ notified[i] % notifyEvery = 0
    /\ \A i, j \in DOMAIN notified : i # j => notified[i] # notified[j]

\* C19 (as claimed): a wait does not end because the predicate of one poll
\* throws: no call ends with the error of its predicate, and a call that
\* ends without success (timeout error, or null for findElementByXPath)
\* does so only when the time waited has reached its timeout.
C19_PollErrorIsNotFailure ==
    /\ wait.result # "threw"
    /\ wait.result \in {"timeout", "null"} => wait.waited >= wait.timeout

Min(a, b) == IF a <= b THEN a ELSE b
Timeouts(c) == Cardinality({i \in DOMAIN c.menus : c.menus[i] = "timeout"})

\* C20: a call of rightClickWithRetry dispatches one context-menu event per
\* attempt and at most maxRetries of them; it returns when the wait of an
\* attempt finds the menu, all earlier waits having timed out, and attempts
\* nothing more; the body is clicked once after every wait that timed out
\* and the one-second delay is taken once between two attempts, not after
\* the last one; when all maxRetries waits timed out the call throws the
\* error that carries the menu selector and maxRetries; for an invalid
\* element it throws before any event is dispatched.
C20_RightClickRetries ==
    LET c == rclick
    IN  /\ c.dispatched <= c.maxRetries
        /\ c.bodyClicks = Timeouts(c)
        /\ c.result = "pending" =>
              /\ Timeouts(c) = Len(c.menus)
              /\ c.backoffs \in {Len(c.menus), Len(c.menus) - 1}
        /\ c.result = "returned" =>
              /\ c.dispatched = Len(c.menus)
              /\ c.menus[Len(c.menus)] = "found"
              /\ Timeouts(c) = Len(c.menus) - 1
              /\ c.backoffs = Len(c.menus) - 1
              /\ c.error = NoError
        /\ c.result = "threw" =>
              IF c.valid
              THEN /\ c.dispatched = c.maxRetries
                   /\ Timeouts(c) = c.maxRetries
                   /\ Len(c.menus) = c.maxRetries
                   /\ c.backoffs = c.maxRetries - Min(c.maxRetries, 1)
                   /\ c.error =
                         [message |->
                             "Failed to trigger and find context menu",
                          selector |-> ".context-menu, [role='menu']",
                          attempts |-> c.maxRetries]
              ELSE /\ c.dispatched = 0
                   /\ c.error.message = "Invalid element provided"

\* C20 witness: a call with the default of three attempts failed: three
\* events dispatched, three body clicks, two delays of one second.
C20_Witness ==
    /\ rclick.result = "threw"
    /\ rclick.valid
    /\ rclick.maxRetries = 3
    /\ rclick.dispatched = 3
    /\ rclick.bodyClicks = 3
    /\ rclick.backoffs = 2

ClaimedOrder ==
    <<"select", "share", "option", "format", "trigger", "download",
      "rightclick", "deletelookup", "deleteclick", "removal">>
PlaceOf(pc) == CHOOSE i \in DOMAIN ClaimedOrder : ClaimedOrder[i] = pc

\* C21: a run takes the steps of an item one after the other in the order
\* select, share, export-audio option, format, export trigger, download
\* wait, right-click, delete lookup, delete click, removal wait (each UI
\* reset belongs to the step it follows), starting at select and skipping
\* none; it passes the download wait only while no download error is
\* flagged; and an item with a failing step leaves the page as it is: its
\* container is not removed.
C21_StepsInOrder ==
    [][\A r \in Runs :
          run'[r] # run[r] =>
              /\ run'[r].pc = "select" => AtLoop(r)
              /\ (run'[r].pc \in ItemPcs /\ run'[r].pc # "select") =>
                    /\ InItem(r)
                    /\ PlaceOf(run'[r].pc) = PlaceOf(run[r].pc) + 1
                    /\ run'[r].fileElement = run[r].fileElement
              /\ (run[r].pc = "download" /\ run'[r].pc = "rightclick") =>
                    ~downloadErrorOccurred
              /\ (InItem(r) /\ run'[r].pc = "loop") =>
                    IF failedAt'[r] # "none"
                    THEN dom' = dom
                    ELSE run[r].pc = "removal"]_vars

\* C21 witness: the delete click of an item was made, after its download
\* wait ended with no error flagged, and its removal is awaited.
C21_Witness ==
    \E r \in Runs :
        /\ InItem(r)
        /\ run[r].pc = "removal"
        /\ run[r].fileElement \in dom
        /\ outcomes[r] = <<"err">>

\* C25 (as claimed): whenever no run is in progress on the page,
\* console.error is the browser's own function and no document error
\* listener of a run is registered.
C25_ObserverBalanced ==
    (\A r \in Runs : ~Running(r)) =>
        /\ consoleError = NativeConsoleError
        /\ errorListeners = {}

\* C22 (as claimed): a background run that was in progress when the
\* coordinator accepted a stop request for its tab picks no further file
\* at the head of its loop and ends as Stopped, whatever the coordinator
\* received in between.
C22_AcceptedStopIsObserved ==
    [][\A r \in stopAsked :
          /\ (AtLoop(r) /\ run'[r] # run[r]) => Ended(r)'
          /\ (Running(r) /\ Ended(r)') => run'[r].state = "Stopped"]_vars

\* C23 (as claimed): the step in which a background run ends adds one
\* exportComplete message to those on their way to the coordinator.
C23_OneCompletionPerRun ==
    [][\A r \in Runs :
          (Running(r) /\ run[r].backgroundMode /\ Ended(r)') =>
              /\ Len(toBackground') = Len(toBackground) + 1
              /\ toBackground'[Len(toBackground')].action =
                    "exportComplete"]_vars

\* C24 (as claimed): a cleanup timer that fires for a tab on which an
\* export was started after the timer was set (the tab's status is
\* running again) deletes nothing of that export.
C24_CleanupSparesLaterRun ==
    [][\A t \in Tabs :
          (/\ cleanupTimers'[t] = cleanupTimers[t] - 1
           /\ activeExports[t].status = "running") =>
              UNCHANGED <<activeExports, activeTabIds, stopFlags>>]_vars

\* C26 (as claimed): the answer to getExportStatus for the page's tab says
\* isRunning while a background run has an item in flight, and says not
\* running once every run has ended and the coordinator has handled the
\* exportComplete (nothing is on its way to it or to the page).
C26_IsRunningWhileInProgress ==
    [][(reply' # reply /\ reply'.action = "getExportStatus"
                       /\ reply'.tabId = Page) =>
          /\ (\E r \in BackgroundRuns : InItem(r)) => reply'.isRunning
          /\ (/\ \A r \in Runs : ~Running(r)
              /\ toBackground = <<>> /\ toContent = <<>>
              /\ activeExports[Page].status = "completed") =>
                 ~reply'.isRunning]_vars

\* C27 (as claimed): the download wait of an item ends in failure exactly
\* when the error flag was set during that wait, i.e. after the item's
\* export click and before the wait was over.
C27_FailsIffErrorInWindow ==
    [][\A r \in InDownloadWait :
          run'[r] # run[r] =>
             (failedAt'[r] = "download" <=> r \in errorInWindow)]_vars

\* The number of failed items at the end of a run's sequence of item
\* outcomes, i.e. since its last successful item or since it started.
RECURSIVE TrailingErrors(_)
TrailingErrors(seq) ==
    IF seq = << >> \/ seq[Len(seq)] # "err" THEN 0
    ELSE 1 + TrailingErrors(SubSeq(seq, 1, Len(seq) - 1))

\* C28: the consecutive-error counter of a run is always between 0 and
\* maxErrors, and outside an item (at the head of the loop and after the
\* run has ended) it is the number of items that failed since the run's
\* last successful item, or since the run started; a successful item,
\* also one whose container had to be removed by force, leaves it at zero.
C28_ErrorCounter ==
    \A r \in Runs :
        /\ run[r].errorCount \in 0..maxErrors
        /\ run[r].errorCount = TrailingErrors(outcomes[r])
        /\ (AtLoop(r) /\ removedBy[r] # "none") => run[r].errorCount = 0
C28_Witness ==
    \E r \in Runs :
        /\ AtLoop(r) /\ removedBy[r] = "controller"
        /\ outcomes[r] = <<"err", "err", "ok">>
        /\ run[r].errorCount = 0

\* C29: the set of processed titles of a run is empty when the run
\* starts and never loses a title, and the end of every item (exported or
\* failed) adds exactly one title to it, that of the item.
C29_ProcessedTitlesGrow ==
    [][\A r \in Runs :
          /\ (~Running(r) /\ Running(r)') => run'[r].processedTitles = {}
          /\ Running(r) => run[r].processedTitles \subseteq
                               run'[r].processedTitles
          /\ (InItem(r) /\ AtLoop(r)') =>
                /\ run[r].fileTitle \notin run[r].processedTitles
                /\ run'[r].processedTitles =
                      run[r].processedTitles \cup {run[r].fileTitle}
          /\ ~(InItem(r) /\ AtLoop(r)') =>
                (Running(r) => run'[r].processedTitles =
                                  run[r].processedTitles)]_vars
C29_Witness ==
    \E r \in Runs :
        /\ AtLoop(r) /\ Len(outcomes[r]) = 3
        /\ Cardinality(run[r].processedTitles) = 3
        /\ \E i, j \in DOMAIN outcomes[r] :
              outcomes[r][i] = "err" /\ outcomes[r][j] = "ok"

\* C30 (as claimed): in step (b) an item fails for want of the "Export
\* Audio" option only when the option is neither in the popover nor
\* anywhere else in the page; an option outside the popover is found by
\* the second search.
C30_PageWideFallback ==
    [][\A r \in Runs :
          (run'[r] # run[r] /\ failedAt'[r] = "nooption") =>
              optionAt = "none"]_vars

\* C32 (as claimed): a tab that has been closed has no state left in the
\* coordinator: it is neither in activeTabIds nor in stopFlags and has no
\* entry in activeExports.
C32_ClosedTabLeavesNothing ==
    \A t \in Tabs \ openTabs :
        /\ t \notin activeTabIds
        /\ t \notin stopFlags
        /\ activeExports[t] = NoExport

\* C33: no tab is both in activeTabIds and in stopFlags, and every tab of
\* activeTabIds has an entry in activeExports.
C33_CoordinatorSetsConsistent ==
    /\ activeTabIds \cap stopFlags = {}
    /\ \A t \in activeTabIds : activeExports[t] # NoExport

\* C33 witness: the export of a tab was stopped and started again (its
\* stop flag is gone, its entry is running afresh, a second chain of
\* checks is pending) while the page, stopped, keeps its flag.
C33_Witness ==
    /\ Page \in stopFlags /\ activeExports[Page].status = "stopped"
    /\ \E t \in Tabs \ {Page} :
          /\ t \in activeTabIds /\ keepAlive[t] = 2
          /\ activeExports[t].status = "running"

\* C34 (as claimed): a tab never has more than one chain of keepTabAlive
\* checks pending.
C34_OneChainPerTab == \A t \in Tabs : keepAlive[t] <= 1

\* C35 (as claimed): the flag isBackgroundExporting of the content script,
\* which arms the beforeunload guard, is set only while a background run
\* is in progress on the page.
C35_GuardOnlyDuringExport ==
    isBackgroundExporting => BackgroundRuns # {}

\* C38: a run never picks a container whose title is empty and never has
\* the empty title among its processed titles; a run that scans (no stop
\* seen, below the error ceiling) a page on which every container left is
\* untitled or already processed ends as Completed.
C38_UntitledNeverPicked ==
    [][\A r \in Runs :
          /\ "" \notin run'[r].processedTitles
          /\ (AtLoop(r) /\ InItem(r)') =>
                /\ run'[r].fileTitle # ""
                /\ worklist[run'[r].fileElement] = run'[r].fileTitle
          /\ (/\ AtLoop(r) /\ run'[r] # run[r]
              /\ ~StopObserved(r) /\ run[r].errorCount < maxErrors
              /\ \A e \in dom : \/ worklist[e] = ""
                                 \/ worklist[e] \in run[r].processedTitles) =>
                 run'[r].state = "Completed"]_vars
C38_Witness ==
    \E r \in Runs :
        /\ run[r].state = "Completed"
        /\ run[r].processedTitles = {"A"}
        /\ \E e \in dom : worklist[e] = ""

\* C36 (as claimed): an .mp3 download that the browser reports for the
\* page's tab is sent to the PlaudExports subdirectory while a background
\* run has an item in flight there, and is left alone when no run is in
\* progress on the page and none is about to start.
C36_DownloadsOfRunRedirected ==
    [][(/\ suggestion' # suggestion
        /\ suggestion'.tabId = Page
        /\ EndsWithMp3(ToLowerCase(suggestion'.filename))) =>
          /\ (\E r \in BackgroundRuns : InItem(r)) =>
                suggestion'.suggested = DOWNLOAD_SUBDIRECTORY
          /\ ((\A r \in Runs : ~Running(r)) /\ toContent = << >>) =>
                suggestion'.suggested = "default"]_vars

\* C37 (as claimed): a run that has ended has no periodic timer left:
\* none of its keep-visible intervals and no download-wait interval.
C37_NoTimerOutlivesRun ==
    \A r \in Runs :
        Ended(r) => scrollIntervals[r] = 0 /\ r \notin pollIntervals

\* C39: the delivery of a message whose sender is not the extension leaves
\* the content script as it was: no run starts or changes, the stop flag,
\* the background flag and the element selector keep their values, the
\* observer of download errors is not installed, nothing is sent to the
\* coordinator and no response is given.
C39_ForeignSenderChangesNothing ==
    [][foreignSeen' # foreignSeen =>
          UNCHANGED <<run, shouldStopExport, isBackgroundExporting,
                      selectorActive, contentResponse, observerVars,
                      downloadErrorOccurred, toBackground,
                      toContent>>]_vars
C39_Witness ==
    /\ foreignSeen = MaxForeign
    /\ selectorActive
    /\ isBackgroundExporting /\ ~shouldStopExport
    /\ \E r \in Runs : InItem(r)
    /\ \A r \in Runs : run[r].state \in {"Idle", "Running"}

\* C31: a pass of waitForDeleteMenuItem is made every 250 ms of waiting;
\* a pass runs the broader scan only when more than 5 seconds of waiting
\* have passed and the menu-item selectors matched nothing; the call
\* returns the menu item when there is one, the element of the broader
\* scan only in such a late pass, and otherwise goes on; it throws when
\* maxWaitMs have passed without a match and never returns empty-handed.
C31_DeleteMenuPolling ==
    [][(menuWait' # menuWait /\ menuWait.result = "pending") =>
          /\ menuWait'.result \in {"pending", "primary", "fallback", "threw"}
          /\ menuWait'.broadened => menuWait.waited > 5000
          /\ menuWait'.result = "primary" <=>
                (menuWait.waited < menuWait.maxWaitMs
                    /\ menuWait'.page \in {"menuitem", "both"})
          /\ menuWait'.result = "fallback" <=>
                (/\ menuWait.waited < menuWait.maxWaitMs
                 /\ menuWait.waited > 5000
                 /\ menuWait'.page = "exact")
          /\ menuWait'.result = "pending" =>
                menuWait'.waited = menuWait.waited + 250
          /\ menuWait'.result = "threw" <=>
                menuWait.waited >= menuWait.maxWaitMs]_vars
C31_Witness ==
    /\ menuWait.maxWaitMs = 15000
    /\ menuWait.result = "fallback"
    /\ menuWait.waited = 5250

\* C40 (as claimed): when a call of clickElement writes the style back,
\* after the native click or after the dispatched click event, the
\* element has the inline outline and z-index it had when the call was
\* made.
C40_StyleRestored ==
    [][\A c \in Clicks :
          (clicks[c].pc = "flash" /\ clicks'[c].pc # "flash") =>
              style' = clicks[c].atEntry]_vars
====
